---- MODULE Spec2Model ----
(***************************************************************************)
(* A model of slack-anonymizer: the redaction cascade and identity hasher  *)
(* of utils/anonymizer.js, the sentiment scorer, keyword extractor and     *)
(* aggregators of utils/analyzer.js, and the route handlers of index.js.   *)
(* JavaScript strings are TLA+ strings; a character is a string of length  *)
(* one, read with SubSeq.                                                  *)
(***************************************************************************)
EXTENDS Integers, Sequences, FiniteSets, TLC

(***************************************************************************)
(* Characters and the character classes of the regular expressions.        *)
(***************************************************************************)
Ch(s, i) == SubSeq(s, i, i)

Digit == {"0", "1", "2", "3", "4", "5", "6", "7", "8", "9"}

UpperSeq == <<"A", "B", "C", "D", "E", "F", "G", "H", "I", "J", "K", "L", "M",
              "N", "O", "P", "Q", "R", "S", "T", "U", "V", "W", "X", "Y", "Z">>

LowerSeq == <<"a", "b", "c", "d", "e", "f", "g", "h", "i", "j", "k", "l", "m",
              "n", "o", "p", "q", "r", "s", "t", "u", "v", "w", "x", "y", "z">>

Upper == {UpperSeq[k] : k \in 1..26}

Lower == {LowerSeq[k] : k \in 1..26}

Alnum == Upper \cup Lower \cup Digit

\* \w of a JavaScript regular expression without the u flag
WordCh == Alnum \cup {"_"}

\* \s (the white space a TLA+ string can hold)
SpaceCh == {" ", "\t", "\n", "\r", "\f"}

\* [A-Za-z0-9._%+-]
EmailLocalCh == Alnum \cup {".", "_", "%", "+", "-"}

\* [A-Za-z0-9.-]
EmailDomainCh == Alnum \cup {".", "-"}

\* [A-Z|a-z]: the bar is a member of the class
EmailTldCh == Upper \cup Lower \cup {"|"}

\* [-a-zA-Z0-9@:%._\+~#=]
UrlHostCh == Alnum \cup {"-", "@", ":", "%", ".", "_", "+", "~", "#", "="}

\* [a-zA-Z0-9()]
UrlTldCh == Alnum \cup {"(", ")"}

\* [-a-zA-Z0-9()@:%_\+.~#?&//=]
UrlPathCh == Alnum \cup {"-", "(", ")", "@", ":", "%", "_", "+", ".", "~", "#", "?", "&", "/", "="}

\* [A-Za-z0-9+/=]
Base64Ch == Alnum \cup {"+", "/", "="}

\* [\w-]
HostLabelCh == WordCh \cup {"-"}

(***************************************************************************)
(* Regular expressions as trees, and the backtracking matcher of the       *)
(* JavaScript engine: Ends(re, s, i) is the sequence of positions at which *)
(* a match of re that starts at position i of s can end, in the order the  *)
(* engine tries them (greedy quantifiers try more repetitions first).  The *)
(* match the engine reports is the first of them.                          *)
(***************************************************************************)
Cls(S) == [t |-> "cls", s |-> S]

Lit(str) == [t |-> "lit", s |-> str]

\* \b
Wb == [t |-> "wb"]

Cat(rs) == [t |-> "cat", rs |-> rs]

\* r{lo,hi}, greedy; hi = -1 stands for no upper limit
Rep(r, lo, hi) == [t |-> "rep", r |-> r, lo |-> lo, hi |-> hi]

D(n) == Rep(Cls(Digit), n, n)

Opt(r) == Rep(r, 0, 1)

IsWordAt(s, i) == i >= 1 /\ i <= Len(s) /\ Ch(s, i) \in WordCh

RECURSIVE Ends(_, _, _), CatEnds(_, _, _, _), FlatEnds(_, _, _, _), RepFlat(_, _, _, _, _, _)
RECURSIVE RunLength(_, _, _, _)

FlatEnds(re, s, starts, j) ==
  IF j > Len(starts) THEN <<>>
  ELSE Ends(re, s, starts[j]) \o FlatEnds(re, s, starts, j + 1)

CatEnds(rs, k, s, starts) ==
  IF k > Len(rs) \/ starts = <<>> THEN starts
  ELSE CatEnds(rs, k + 1, s, FlatEnds(rs[k], s, starts, 1))

\* how many characters of the class S follow from position i on, hi at most
\* (hi = -1: any number)
RunLength(S, s, i, hi) ==
  IF hi = 0 \/ i > Len(s) \/ Ch(s, i) \notin S THEN 0
  ELSE 1 + RunLength(S, s, i + 1, IF hi > 0 THEN hi - 1 ELSE hi)

\* a repeated character class: the longest run first, then one character less
\* at a time, down to lo characters
ClassRepEnds(S, lo, hi, s, i) ==
  LET n == RunLength(S, s, i, hi)
  IN  IF n < lo THEN <<>> ELSE [p \in 1..(n - lo + 1) |-> i + n + 1 - p]

RepEnds(r, lo, hi, s, i) ==
  LET more == IF hi = 0 THEN <<>>
              ELSE RepFlat(r, IF lo > 0 THEN lo - 1 ELSE 0,
                           IF hi > 0 THEN hi - 1 ELSE hi, s, Ends(r, s, i), 1)
  IN  more \o (IF lo <= 0 THEN <<i>> ELSE <<>>)

RepFlat(r, lo, hi, s, starts, j) ==
  IF j > Len(starts) THEN <<>>
  ELSE RepEnds(r, lo, hi, s, starts[j]) \o RepFlat(r, lo, hi, s, starts, j + 1)

Ends(re, s, i) ==
  CASE re.t = "cls" -> IF i <= Len(s) /\ Ch(s, i) \in re.s THEN <<i + 1>> ELSE <<>>
    [] re.t = "lit" -> IF i + Len(re.s) - 1 <= Len(s) /\ SubSeq(s, i, i + Len(re.s) - 1) = re.s
                       THEN <<i + Len(re.s)>> ELSE <<>>
    [] re.t = "wb"  -> IF IsWordAt(s, i - 1) # IsWordAt(s, i) THEN <<i>> ELSE <<>>
    [] re.t = "cat" -> CatEnds(re.rs, 1, s, <<i>>)
    [] re.t = "rep" -> IF re.r.t = "cls" THEN ClassRepEnds(re.r.s, re.lo, re.hi, s, i)
                       ELSE RepEnds(re.r, re.lo, re.hi, s, i)

\* the end of the match at i, or 0 when there is none
MatchEnd(re, s, i) ==
  LET e == Ends(re, s, i) IN IF e = <<>> THEN 0 ELSE e[1]

\* the first position from i on where re matches, or 0
FirstMatch(re, s, i) ==
  LET starts == {j \in i..Len(s) : MatchEnd(re, s, j) > j}
  IN  IF starts = {} THEN 0 ELSE CHOOSE j \in starts : \A k \in starts : j <= k

\* String.prototype.replace(/re/g, tok): leftmost matches, left to right, each
\* search resuming where the last match ended (no pattern here matches empty)
RECURSIVE ReplaceFrom(_, _, _, _)
ReplaceFrom(re, tok, s, i) ==
  LET j == FirstMatch(re, s, i)
  IN  IF j = 0 THEN SubSeq(s, i, Len(s))
      ELSE SubSeq(s, i, j - 1) \o tok \o ReplaceFrom(re, tok, s, MatchEnd(re, s, j))

ReplaceAll(re, tok, s) == ReplaceFrom(re, tok, s, 1)

\* whether re matches anywhere in s
Matches(re, s) == \E i \in 1..Len(s) : MatchEnd(re, s, i) > i

(***************************************************************************)
(* utils/anonymizer.js: the rules of anonymizeText, in the order applied.  *)
(***************************************************************************)
EmailRe == Cat(<<Wb, Rep(Cls(EmailLocalCh), 1, -1), Lit("@"), Rep(Cls(EmailDomainCh), 1, -1),
                 Lit("."), Rep(Cls(EmailTldCh), 2, -1), Wb>>)

PhonePlainRe == Cat(<<Wb, D(3), Opt(Cls({"-", "."})), D(3), Opt(Cls({"-", "."})), D(4), Wb>>)

PhoneParenRe == Cat(<<Lit("("), D(3), Lit(")"), Rep(Cls(SpaceCh), 0, -1), D(3),
                      Opt(Cls({"-", "."})), D(4)>>)

PhoneSpacedRe == Cat(<<Wb, D(3), Cls({"-", "."} \cup SpaceCh), D(3),
                       Cls({"-", "."} \cup SpaceCh), D(4), Wb>>)

UrlRe == Cat(<<Lit("http"), Opt(Lit("s")), Lit("://"), Opt(Lit("www.")),
               Rep(Cls(UrlHostCh), 1, 256), Lit("."), Rep(Cls(UrlTldCh), 1, 6), Wb,
               Rep(Cls(UrlPathCh), 0, -1)>>)

IpRe == Cat(<<Wb, Rep(Cat(<<Rep(Cls(Digit), 1, 3), Lit(".")>>), 3, 3), Rep(Cls(Digit), 1, 3), Wb>>)

CardSepCh == {"-"} \cup SpaceCh

CreditCardRe == Cat(<<Wb, D(4), Opt(Cls(CardSepCh)), D(4), Opt(Cls(CardSepCh)), D(4),
                      Opt(Cls(CardSepCh)), D(4), Wb>>)

CardPartialRe == Cat(<<Wb, Lit("ending in "), D(4), Wb>>)

SsnRe == Cat(<<Wb, D(3), Lit("-"), D(2), Lit("-"), D(4), Wb>>)

AccountRe == Cat(<<Wb, Lit("Account "), Rep(Cls(Digit), 10, -1), Wb>>)

TransactionRe == Cat(<<Wb, Rep(Cls(Upper), 3, 3), Lit("-"), D(4), Lit("-"), D(6), Wb>>)

SshKeyRe == Cat(<<Lit("ssh-rsa"), Rep(Cls(SpaceCh), 1, -1), Rep(Cls(Base64Ch), 1, -1)>>)

InternalServerRe == Cat(<<Wb, Rep(Cls(HostLabelCh), 1, -1), Lit("."), Rep(Cls(HostLabelCh), 1, -1),
                          Lit(".company.com"), Wb>>)

AmountRe == Cat(<<Lit("$"), Rep(Cls(Digit), 1, 3), Rep(Cat(<<Lit(","), D(3)>>), 1, -1)>>)

RedactionRules ==
  << [re |-> EmailRe,          tok |-> "[EMAIL]"],
     [re |-> PhonePlainRe,     tok |-> "[PHONE]"],
     [re |-> PhoneParenRe,     tok |-> "[PHONE]"],
     [re |-> PhoneSpacedRe,    tok |-> "[PHONE]"],
     [re |-> UrlRe,            tok |-> "[URL]"],
     [re |-> IpRe,             tok |-> "[IP_ADDRESS]"],
     [re |-> CreditCardRe,     tok |-> "[CREDIT_CARD]"],
     [re |-> CardPartialRe,    tok |-> "[CREDIT_CARD_PARTIAL]"],
     [re |-> SsnRe,            tok |-> "[SSN]"],
     [re |-> AccountRe,        tok |-> "[ACCOUNT_NUMBER]"],
     [re |-> TransactionRe,    tok |-> "[TRANSACTION_ID]"],
     [re |-> SshKeyRe,         tok |-> "[SSH_KEY]"],
     [re |-> InternalServerRe, tok |-> "[INTERNAL_SERVER]"],
     [re |-> AmountRe,         tok |-> "[AMOUNT]"] >>

RECURSIVE ApplyRules(_, _, _)
ApplyRules(rules, k, s) ==
  IF k > Len(rules) THEN s
  ELSE LET replaced == ReplaceAll(rules[k].re, rules[k].tok, s)
       IN  \* the test makes TLC compute this rule's result before the next rule starts
           IF Len(replaced) >= 0 THEN ApplyRules(rules, k + 1, replaced) ELSE replaced

anonymizeText(text) == ApplyRules(RedactionRules, 1, text)

(***************************************************************************)
(* utils/anonymizer.js: hashUserId.  SHA-256 is the table of the true      *)
(* digests (first 8 hex characters) of the identifiers the model uses and  *)
(* of the tokens hashUserId makes of them.                                 *)
(***************************************************************************)
Sha256Hex8 ==
  [ U0A1B2C3D     |-> "74538ce1",
    U2            |-> "325a90f3",
    U3            |-> "101de8b7",
    user_74538ce1 |-> "43ae1651",
    user_325a90f3 |-> "273e40a2",
    user_101de8b7 |-> "fc3ab348" ] @@
  ("10" :> "4a44dc15") @@ ("9" :> "19581e27") @@
  ("user_4a44dc15" :> "a4cf91b4") @@ ("user_19581e27" :> "1454f174")

hashUserId(userId) == "user_" \o Sha256Hex8[userId]

(***************************************************************************)
(* utils/anonymizer.js: anonymizeMessage, anonymizeMessages.  A message is *)
(* a record; the optional reactions field is absent from its domain when   *)
(* the message has none.                                                   *)
(***************************************************************************)
HasField(rec, f) == f \in DOMAIN rec

\* a variant that passes the user identifier on as it came
anonymizeMessageKeepingUser(message) ==
  [ ts         |-> message.ts,
    user       |-> message.user,
    username   |-> "[USERNAME]",
    channel    |-> message.channel,
    text       |-> anonymizeText(message.text),
    reactions  |-> IF HasField(message, "reactions") THEN message.reactions ELSE <<>>,
    anonymized |-> TRUE ]

\* a variant that always answers with no reactions
anonymizeMessageDroppingReactions(message) ==
  [ ts         |-> message.ts,
    user       |-> hashUserId(message.user),
    username   |-> "[USERNAME]",
    channel    |-> message.channel,
    text       |-> anonymizeText(message.text),
    reactions  |-> <<>>,
    anonymized |-> TRUE ]

anonymizeMessage(message) ==
  [ ts         |-> message.ts,
    user       |-> hashUserId(message.user),
    username   |-> "[USERNAME]",
    channel    |-> message.channel,
    text       |-> anonymizeText(message.text),
    reactions  |-> IF HasField(message, "reactions") THEN message.reactions ELSE <<>>,
    anonymized |-> TRUE ]

\* a variant that maps from the last message to the first
anonymizeMessagesReversed(messages) ==
  [i \in 1..Len(messages) |-> anonymizeMessage(messages[Len(messages) + 1 - i])]

\* Array.prototype.map: element i of the result is the callback's value on element i
anonymizeMessages(messages) == [i \in 1..Len(messages) |-> anonymizeMessage(messages[i])]

(***************************************************************************)
(* JavaScript helpers of utils/analyzer.js: toLowerCase, includes, split,  *)
(* match, join, objects with their property order, numbers.                *)
(***************************************************************************)
LowerOf(c) ==
  IF c \in Upper THEN LowerSeq[CHOOSE k \in 1..26 : UpperSeq[k] = c] ELSE c

\* String.prototype.toLowerCase (halving keeps the evaluation shallow)
RECURSIVE toLowerCase(_)
toLowerCase(s) ==
  IF Len(s) = 0 THEN ""
  ELSE IF Len(s) = 1 THEN LowerOf(s)
  ELSE LET h == Len(s) \div 2
       IN  toLowerCase(SubSeq(s, 1, h)) \o toLowerCase(SubSeq(s, h + 1, Len(s)))

\* String.prototype.includes
Includes(s, w) ==
  \E i \in 1..(Len(s) - Len(w) + 1) : SubSeq(s, i, i + Len(w) - 1) = w

\* s.split(/\s+/).length: one piece more than there are maximal runs of white space
SplitWhitespaceCount(s) ==
  1 + Cardinality({i \in 1..Len(s) :
                     Ch(s, i) \in SpaceCh /\ (i = 1 \/ Ch(s, i - 1) \notin SpaceCh)})

\* s.match(/re/g) || []: the matched substrings, left to right
RECURSIVE MatchAllFrom(_, _, _)
MatchAllFrom(re, s, i) ==
  LET j == FirstMatch(re, s, i)
      e == MatchEnd(re, s, j)
  IN  IF j = 0 THEN <<>>
      ELSE <<SubSeq(s, j, e - 1)>> \o MatchAllFrom(re, s, e)

\* /\b(\w+)\b/g
WordRe == Cat(<<Wb, Rep(Cls(WordCh), 1, -1), Wb>>)

RECURSIVE Join(_, _)
Join(strs, sep) ==
  IF Len(strs) = 0 THEN ""
  ELSE IF Len(strs) = 1 THEN strs[1]
  ELSE strs[1] \o sep \o Join(Tail(strs), sep)

DigitChars == "0123456789"

DigitValue(c) == CHOOSE d \in 0..9 : Ch(DigitChars, d + 1) = c

RECURSIVE Decimal(_)
\* String(n) of a natural number
Decimal(n) ==
  IF n < 10 THEN Ch(DigitChars, n + 1)
  ELSE Decimal(n \div 10) \o Ch(DigitChars, (n % 10) + 1)

RECURSIVE ParseDigits(_, _)
\* the value of the digits s[1..k]
ParseDigits(s, k) ==
  IF k = 0 THEN 0 ELSE 10 * ParseDigits(s, k - 1) + DigitValue(Ch(s, k))

AllDigits(s) == Len(s) > 0 /\ \A i \in 1..Len(s) : Ch(s, i) \in Digit

\* An array index: the canonical decimal form of an integer below 2^32 - 1
\* (nine digits at most here, so that the value fits the model's integers).
IsArrayIndex(k) ==
  /\ AllDigits(k)
  /\ Len(k) <= 9
  /\ (Len(k) = 1 \/ Ch(k, 1) # "0")

\* A JavaScript object with string keys: its own properties as a sequence of
\* [k, v] in the order of their creation.
EmptyObj == <<>>

HasKey(o, k) == \E i \in 1..Len(o) : o[i].k = k

GetKey(o, k) == o[CHOOSE i \in 1..Len(o) : o[i].k = k].v

\* o[k] = v
SetKey(o, k, v) ==
  IF HasKey(o, k)
  THEN [i \in 1..Len(o) |-> IF o[i].k = k THEN [k |-> k, v |-> v] ELSE o[i]]
  ELSE Append(o, [k |-> k, v |-> v])

\* Object.entries / Object.keys order (OrdinaryOwnPropertyKeys): array indices
\* in ascending numeric order, then the other keys in order of creation
OwnEntries(o) ==
  LET Before(i, j) ==
        IF IsArrayIndex(o[i].k)
        THEN IsArrayIndex(o[j].k) => ParseDigits(o[i].k, Len(o[i].k)) < ParseDigits(o[j].k, Len(o[j].k))
        ELSE ~IsArrayIndex(o[j].k) /\ i < j
      Rank(i) == Cardinality({j \in 1..Len(o) : j # i /\ Before(j, i)})
  IN  [p \in 1..Len(o) |-> o[CHOOSE i \in 1..Len(o) : Rank(i) = p - 1]]

\* Array.prototype.sort with a comparator that puts seq[i] before seq[j] when
\* gt[i][j]: stable, descending
StableSortDesc(seq, gt) ==
  LET Rank(i) == Cardinality({j \in 1..Len(seq) :
                                \/ gt[j][i]
                                \/ (~gt[i][j] /\ j < i)})
  IN  [p \in 1..Len(seq) |-> seq[CHOOSE i \in 1..Len(seq) : Rank(i) = p - 1]]

\* Array.prototype.slice(0, n)
SliceTo(seq, n) == SubSeq(seq, 1, IF n < Len(seq) THEN n ELSE Len(seq))

RECURSIVE Gcd(_, _)
Gcd(a, b) == IF b = 0 THEN a ELSE Gcd(b, a % b)

\* the number n / d (d > 0), in lowest terms
Ratio(n, d) == LET g == Gcd(n, d) IN [num |-> n \div g, den |-> d \div g]

\* Math.round(n / d) for n >= 0, d > 0: halves round up
RoundDiv(n, d) == (2 * n + d) \div (2 * d)

(***************************************************************************)
(* utils/analyzer.js: the sentiment scorers.                               *)
(***************************************************************************)
positiveWords == <<"great", "smoothly", "hard work", "love", "amazing", "excellent",
                   "fantastic", "ready", "good", "thanks", "wonderful">>

negativeWords == <<"issue", "disappointing", "401 error", "problem", "critical", "bug",
                   "urgent", "error", "issues", "help">>

\* a variant that stops at the first word found
CountIncludedStopsAtFirst(words, k, lowerText) ==
  IF \E j \in 1..k : Includes(lowerText, words[j]) THEN 1 ELSE 0

RECURSIVE CountIncluded(_, _, _)
\* the loop "for (const word of words) if (lowerText.includes(word)) n++", over words[1..k]
CountIncluded(words, k, lowerText) ==
  IF k = 0 THEN 0
  ELSE CountIncluded(words, k - 1, lowerText) + (IF Includes(lowerText, words[k]) THEN 1 ELSE 0)

SentimentScore(text) ==
  LET lowerText == toLowerCase(text)
  IN  CountIncluded(positiveWords, Len(positiveWords), lowerText)
        - CountIncluded(negativeWords, Len(negativeWords), lowerText)

LabelOf(score) ==
  IF score > 0 THEN "positive" ELSE IF score < 0 THEN "negative" ELSE "neutral"

\* a variant that looks the phrases up in the text as written
getSentimentCaseSensitive(text) ==
  LabelOf(CountIncluded(positiveWords, Len(positiveWords), text)
            - CountIncluded(negativeWords, Len(negativeWords), text))

getSentiment(text) == LabelOf(SentimentScore(text))

Abs(n) == IF n < 0 THEN -n ELSE n

\* The pairs (matchedWords / words, |score| / matchedWords) at which
\* 0.5 + wordDensity * 0.3 + scoreStrength * 0.2, computed in IEEE 754 doubles
\* and multiplied by 100, falls just below k + 0.5 while the exact value is
\* k + 0.5 (all such pairs for up to 21 matched words and 400 words): there
\* Math.round goes down.  Everywhere else the double is within 1e-12 of the
\* exact value and Math.round gives what rounding the exact value gives.
DoubleJustBelowHalf ==
  { <<Ratio(1, 36), Ratio(1, 3)>>, <<Ratio(5, 36), Ratio(1, 15)>>, <<Ratio(11, 60), Ratio(1, 1)>>,
    <<Ratio(13, 60), Ratio(1, 1)>>, <<Ratio(1, 4), Ratio(0, 1)>>, <<Ratio(1, 4), Ratio(1, 1)>>,
    <<Ratio(17, 60), Ratio(1, 1)>>, <<Ratio(2, 3), Ratio(3, 8)>> }

\* Math.round(confidence * 100) for matchedWords > 0, below the cap:
\* 100 * (0.5 + 0.3 * matchedWords / words + 0.2 * absScore / matchedWords)
\*   = (50 w m + 30 m m + 20 absScore w) / (w m)
UncappedHundredths(words, matchedWords, absScore) ==
  RoundDiv(50 * words * matchedWords + 30 * matchedWords * matchedWords
             + 20 * absScore * words, words * matchedWords)
    - (IF <<Ratio(matchedWords, words), Ratio(absScore, matchedWords)>> \in DoubleJustBelowHalf
       THEN 1 ELSE 0)

\* Math.round(confidence * 100): confidence is kept in hundredths
ConfidenceHundredths(words, matchedWords, absScore) ==
  IF matchedWords = 0 THEN 30
  ELSE IF UncappedHundredths(words, matchedWords, absScore) > 95 THEN 95
  ELSE UncappedHundredths(words, matchedWords, absScore)

\* the result object, from the two counts and the number of words
SentimentResult(words, pos, neg) ==
  [ sentiment  |-> LabelOf(pos - neg),
    score      |-> pos - neg,
    confidence |-> Ratio(ConfidenceHundredths(words, pos + neg, Abs(pos - neg)), 100) ]

getSentimentWithConfidence(text) ==
  SentimentResult(SplitWhitespaceCount(text),
                  CountIncluded(positiveWords, Len(positiveWords), toLowerCase(text)),
                  CountIncluded(negativeWords, Len(negativeWords), toLowerCase(text)))

NoCounts == [positive |-> 0, neutral |-> 0, negative |-> 0]

Bump(counts, label) == [counts EXCEPT ![label] = @ + 1]

RECURSIVE SummaryFold(_, _)
SummaryFold(messages, n) ==
  IF n = 0 THEN NoCounts
  ELSE Bump(SummaryFold(messages, n - 1), getSentiment(messages[n].text))

getSentimentSummary(messages) == SummaryFold(messages, Len(messages))

(***************************************************************************)
(* utils/stopwords.js is not among the sources; the set stands for it.     *)
(***************************************************************************)
stopWords == {"the", "and", "for", "are", "you", "this", "that", "with", "was", "can"}

(***************************************************************************)
(* utils/analyzer.js: word frequencies, extractKeywords, calculateStatistics. *)
(***************************************************************************)
\* The value of a property of frequency: a number, or the string that + 1
\* makes of a value that is not a number.
JsNumber(n) == [kind |-> "number", num |-> n, str |-> ""]

JsString(str) == [kind |-> "string", num |-> 0, str |-> str]

\* frequency[word] || 0.  frequency is an object literal, so a word it has
\* no own property for is looked up in Object.prototype: "constructor" finds
\* the function Object, which is truthy and which + turns into its source
\* text.  Own values are counts of 1 or more, or non-empty strings: truthy.
ReadOrZero(frequency, word) ==
  IF HasKey(frequency, word) THEN GetKey(frequency, word)
  ELSE IF word = "constructor" THEN JsString("function Object() { [native code] }")
  ELSE JsNumber(0)

\* value + 1: addition of numbers, concatenation for a string
PlusOne(value) ==
  IF value.kind = "number" THEN JsNumber(value.num + 1) ELSE JsString(value.str \o "1")

\* frequency[word] = (frequency[word] || 0) + 1.  An assignment to
\* "__proto__" calls the setter of Object.prototype, which ignores a value
\* that is neither an object nor null: no own property appears.
CountWord(frequency, word) ==
  IF word = "__proto__" THEN frequency
  ELSE SetKey(frequency, word, PlusOne(ReadOrZero(frequency, word)))

\* the body of words.forEach
WordStep(frequency, word) ==
  IF word \notin stopWords /\ Len(word) > 2 THEN CountWord(frequency, word) ELSE frequency

RECURSIVE CountWords(_, _)
\* the frequency object after the words[1..n]
CountWords(words, n) ==
  IF n = 0 THEN EmptyObj ELSE WordStep(CountWords(words, n - 1), words[n])

\* frequency after words.forEach
WordFrequency(words) == CountWords(words, Len(words))

\* the comparator ([, a], [, b]) => b - a on the elements of entries: entry i
\* goes before entry j when b - a > 0.  With a string that is not a numeral
\* b - a is NaN, which sort takes as "equal".  (Three or more entries with
\* different counts, one of them such a string, make the comparator
\* inconsistent and the order implementation-defined; the texts tried
\* stay below that.)
HigherCount(entries) ==
  [i \in 1..Len(entries) |->
     [j \in 1..Len(entries) |->
        /\ entries[i].v.kind = "number"
        /\ entries[j].v.kind = "number"
        /\ entries[i].v.num > entries[j].v.num]]

\* .sort(([, a], [, b]) => b - a)
SortByCount(entries) == StableSortDesc(entries, HigherCount(entries))

\* .map(([word, count]) => ({ word, count }))
WordCounts(top) == [i \in 1..Len(top) |-> [word |-> top[i].k, count |-> top[i].v]]

\* Object.entries(frequency).sort(...).slice(0, limit).map(...)
TopWords(text, limit) ==
  WordCounts(SliceTo(SortByCount(OwnEntries(WordFrequency(
    MatchAllFrom(WordRe, toLowerCase(text), 1)))), limit))

extractKeywords(text, limit) == TopWords(text, limit)

Texts(messages) == [i \in 1..Len(messages) |-> messages[i].text]

RECURSIVE SumLengths(_, _)
SumLengths(messages, n) ==
  IF n = 0 THEN 0 ELSE SumLengths(messages, n - 1) + Len(messages[n].text)

calculateStatistics(messages) ==
  IF Len(messages) = 0
  THEN [totalMessages |-> 0, averageMessageLength |-> Ratio(0, 1), topWords |-> <<>>]
  ELSE [ totalMessages        |-> Len(messages),
         \* parseFloat(averageMessageLength.toFixed(2))
         averageMessageLength |-> Ratio(RoundDiv(100 * SumLengths(messages, Len(messages)),
                                                 Len(messages)), 100),
         topWords             |-> TopWords(Join(Texts(messages), " "), 5) ]

(***************************************************************************)
(* utils/analyzer.js: timestamps.  A timestamp is a string of seconds with *)
(* up to six decimals; parseFloat gives its seconds and microseconds.      *)
(***************************************************************************)
LeadingDigits(s) == Cardinality({i \in 1..Len(s) : \A j \in 1..i : Ch(s, j) \in Digit})

RECURSIVE Pow10(_)
Pow10(n) == IF n = 0 THEN 1 ELSE 10 * Pow10(n - 1)

parseFloat(s) ==
  LET n    == LeadingDigits(s)
      rest == IF n < Len(s) /\ Ch(s, n + 1) = "." THEN SubSeq(s, n + 2, Len(s)) ELSE ""
      m    == LeadingDigits(rest)
      k    == IF m > 6 THEN 6 ELSE m
  IN  [sec |-> ParseDigits(s, n), micro |-> ParseDigits(rest, k) * Pow10(6 - k)]

FloatGt(a, b) == a.sec > b.sec \/ (a.sec = b.sec /\ a.micro > b.micro)

\* the time zone of the process, in hours east of UTC
LocalZoneHours == 1

\* new Date(parseFloat(ts) * 1000).getHours(), and the key `${hour}:00`
HourKey(ts) == Decimal(((parseFloat(ts).sec \div 3600) + LocalZoneHours) % 24) \o ":00"

(***************************************************************************)
(* utils/analyzer.js: analyzeMessages.                                     *)
(***************************************************************************)
RECURSIVE SumCounts(_, _)
SumCounts(reactions, n) ==
  IF n = 0 THEN 0 ELSE SumCounts(reactions, n - 1) + reactions[n].count

\* message.reactions?.reduce((sum, reaction) => sum + reaction.count, 0) || 0
ReactionTotal(message) ==
  IF HasField(message, "reactions") THEN SumCounts(message.reactions, Len(message.reactions)) ELSE 0

JsNull == "<null>"

NewUserStats == [messageCount |-> 0, totalReactions |-> 0, averageLength |-> Ratio(0, 1), totalLength |-> 0]

NewChannelStats == [messageCount |-> 0, totalReactions |-> 0, uniqueUsers |-> {}]

\* a variant that starts every user's statistics afresh
UserStatsOfAlwaysNew(userStats, user) == NewUserStats

\* if (!userStats[message.user]) userStats[message.user] = {...}: the user's statistics so far
UserStatsOf(userStats, user) ==
  IF HasKey(userStats, user) THEN GetKey(userStats, user) ELSE NewUserStats

AnalyzeStart ==
  [ userStats |-> EmptyObj, channelStats |-> EmptyObj, timeStats |-> EmptyObj,
    allText |-> <<>>, sentimentCounts |-> [positive |-> 0, negative |-> 0, neutral |-> 0],
    totalLength |-> 0 ]

\* the body of messages.forEach in analyzeMessages
AnalyzeStep(acc, message) ==
  LET u0 == UserStatsOf(acc.userStats, message.user)
      u1 == [u0 EXCEPT !.messageCount = @ + 1,
                       !.totalLength = @ + Len(message.text),
                       !.totalReactions = @ + ReactionTotal(message)]
      c0 == IF HasKey(acc.channelStats, message.channel) THEN GetKey(acc.channelStats, message.channel)
            ELSE NewChannelStats
      c1 == [c0 EXCEPT !.messageCount = @ + 1,
                       !.totalReactions = @ + ReactionTotal(message),
                       !.uniqueUsers = @ \cup {message.user}]
      hourKey == HourKey(message.ts)
  IN  [ userStats       |-> SetKey(acc.userStats, message.user, u1),
        channelStats    |-> SetKey(acc.channelStats, message.channel, c1),
        timeStats       |-> SetKey(acc.timeStats, hourKey,
                                   (IF HasKey(acc.timeStats, hourKey) THEN GetKey(acc.timeStats, hourKey) ELSE 0) + 1),
        allText         |-> Append(acc.allText, message.text),
        sentimentCounts |-> Bump(acc.sentimentCounts, getSentiment(message.text)),
        totalLength     |-> acc.totalLength + Len(message.text) ]

RECURSIVE AnalyzeFold(_, _)
AnalyzeFold(messages, n) ==
  IF n = 0 THEN AnalyzeStart ELSE AnalyzeStep(AnalyzeFold(messages, n - 1), messages[n])

\* Object.entries(stats).reduce((max, [key, stats]) =>
\*   stats.messageCount > max.count ? {key, count} : max, {key: null, count: 0}), over entries[1..n]
RECURSIVE MostActive(_, _)
MostActive(entries, n) ==
  IF n = 0 THEN [key |-> JsNull, count |-> 0]
  ELSE LET max == MostActive(entries, n - 1)
       IN  IF entries[n].v.messageCount > max.count
           THEN [key |-> entries[n].k, count |-> entries[n].v.messageCount]
           ELSE max

\* userStats[user].averageLength = totalLength / messageCount, for every user
WithAverageLength(userStats) ==
  [i \in 1..Len(userStats) |->
     [ k |-> userStats[i].k,
       v |-> [userStats[i].v EXCEPT !.averageLength =
                Ratio(userStats[i].v.totalLength, userStats[i].v.messageCount)] ]]

\* channelStats[channel].uniqueUsers = uniqueUsers.size, for every channel
WithUserCount(channelStats) ==
  [i \in 1..Len(channelStats) |->
     [ k |-> channelStats[i].k,
       v |-> [channelStats[i].v EXCEPT !.uniqueUsers = Cardinality(channelStats[i].v.uniqueUsers)] ]]

analyzeMessages(messages) ==
  IF Len(messages) = 0
  THEN [ totalMessages |-> 0, averageLength |-> Ratio(0, 1), userStats |-> EmptyObj,
         channelStats |-> EmptyObj, timeStats |-> EmptyObj, keywords |-> <<>>,
         sentimentOverview |-> [positive |-> 0, negative |-> 0, neutral |-> 0] ]
  ELSE LET acc == AnalyzeFold(messages, Len(messages))
           userStats == WithAverageLength(acc.userStats)
           channelStats == WithUserCount(acc.channelStats)
           topUser == MostActive(OwnEntries(userStats), Len(userStats))
           topChannel == MostActive(OwnEntries(channelStats), Len(channelStats))
       IN  [ totalMessages     |-> Len(messages),
             averageLength     |-> Ratio(acc.totalLength, Len(messages)),
             userStats         |-> userStats,
             channelStats      |-> channelStats,
             timeStats         |-> acc.timeStats,
             keywords          |-> extractKeywords(Join(acc.allText, " "), 15),
             sentimentOverview |-> acc.sentimentCounts,
             mostActiveUser    |-> [user |-> topUser.key, count |-> topUser.count],
             mostActiveChannel |-> [channel |-> topChannel.key, count |-> topChannel.count] ]

(***************************************************************************)
(* utils/analyzer.js: getSentimentStats.                                   *)
(***************************************************************************)
ZeroTally == [positive |-> 0, negative |-> 0, neutral |-> 0]

BumpKey(o, k, label) == SetKey(o, k, Bump(IF HasKey(o, k) THEN GetKey(o, k) ELSE ZeroTally, label))

\* message.text.substring(0, 100) + (message.text.length > 100 ? '...' : '')
DetailText(text) == IF Len(text) > 100 THEN SubSeq(text, 1, 100) \o "..." ELSE text

\* the body of the first messages.forEach
SentimentStep(acc, message) ==
  LET sentimentResult == getSentimentWithConfidence(message.text)
      sentiment == sentimentResult.sentiment
  IN  [ overall   |-> Bump(acc.overall, sentiment),
        byUser    |-> BumpKey(acc.byUser, message.user, sentiment),
        byChannel |-> BumpKey(acc.byChannel, message.channel, sentiment),
        details   |-> Append(acc.details,
                             [ ts |-> message.ts, user |-> message.user, channel |-> message.channel,
                               text |-> DetailText(message.text), sentiment |-> sentiment,
                               score |-> sentimentResult.score,
                               confidence |-> sentimentResult.confidence ]) ]

RECURSIVE SentimentFold(_, _)
SentimentFold(messages, n) ==
  IF n = 0 THEN [overall |-> ZeroTally, byUser |-> EmptyObj, byChannel |-> EmptyObj, details |-> <<>>]
  ELSE SentimentStep(SentimentFold(messages, n - 1), messages[n])

\* a variant that starts the hour's tally afresh at every message
TimelineStepResets(timeline, message) ==
  SetKey(timeline, HourKey(message.ts),
         Bump(ZeroTally, getSentimentWithConfidence(message.text).sentiment))

\* the body of the second messages.forEach
TimelineStep(timeline, message) ==
  BumpKey(timeline, HourKey(message.ts), getSentimentWithConfidence(message.text).sentiment)

RECURSIVE TimelineFold(_, _)
\* the timeline object after messages[1..n]
TimelineFold(messages, n) ==
  IF n = 0 THEN EmptyObj
  ELSE TimelineStep(TimelineFold(messages, n - 1), messages[n])

\* the comparator (a, b) => parseFloat(b.ts) - parseFloat(a.ts) on the elements of seq
NewerFirst(seq) ==
  [i \in 1..Len(seq) |->
     [j \in 1..Len(seq) |-> FloatGt(parseFloat(seq[i].ts), parseFloat(seq[j].ts))]]

getSentimentStats(messages) ==
  IF Len(messages) = 0
  THEN [overall |-> ZeroTally, byUser |-> EmptyObj, byChannel |-> EmptyObj,
        timeline |-> <<>>, details |-> <<>>]
  ELSE LET acc   == SentimentFold(messages, Len(messages))
           lines == OwnEntries(TimelineFold(messages, Len(messages)))
       IN  [ overall   |-> acc.overall,
             byUser    |-> acc.byUser,
             byChannel |-> acc.byChannel,
             timeline  |-> [i \in 1..Len(lines) |->
                              [ hour |-> lines[i].k, positive |-> lines[i].v.positive,
                                negative |-> lines[i].v.negative, neutral |-> lines[i].v.neutral ]],
             details   |-> StableSortDesc(acc.details, NewerFirst(acc.details)) ]

(***************************************************************************)
(* utils/anonymizer.js: createUserMapping.                                 *)
(***************************************************************************)
\* a variant that records the identifier itself
MappingStepUnhashed(userMapping, message) ==
  IF ~HasKey(userMapping, message.user)
  THEN SetKey(userMapping, message.user, message.user)
  ELSE userMapping

\* the body of messages.forEach in createUserMapping
MappingStep(userMapping, message) ==
  IF ~HasKey(userMapping, message.user)
  THEN SetKey(userMapping, message.user, hashUserId(message.user))
  ELSE userMapping

RECURSIVE createUserMappingFold(_, _)
createUserMappingFold(messages, n) ==
  IF n = 0 THEN EmptyObj
  ELSE MappingStep(createUserMappingFold(messages, n - 1), messages[n])

createUserMapping(messages) == createUserMappingFold(messages, Len(messages))

(***************************************************************************)
(* The state.  mockMessages is the message sequence of data/mockMessages.js *)
(* that index.js serves (the data file is not among the sources: any       *)
(* sequence of at most MaxMessages messages of MessagePool stands for it); *)
(* text is the input of a call of a text function; result is what the     *)
(* last call or request returned.                                          *)
(***************************************************************************)
VARIABLES mockMessages, text, result

vars == <<mockMessages, text, result>>

MaxMessages == 2

MaxFragments == 2

MaxLimit == 2

M1 == [ ts |-> "1736954100.000001", user |-> "U0A1B2C3D", username |-> "alice", channel |-> "C1",
        text |-> "Great, thanks!",
        reactions |-> <<[emoji |-> "tada", count |-> 2], [emoji |-> "thumbsup", count |-> 1]>> ]

M2 == [ ts |-> "1736957700.000002", user |-> "U2", username |-> "bob", channel |-> "C1",
        text |-> "bug on 10.0.0.1" ]

M3 == [ ts |-> "1736954100.000003", user |-> "10", username |-> "carol", channel |-> "C2",
        text |-> "call 555-123-4567", reactions |-> <<>> ]

M4 == [ ts |-> "1736950500.000004", user |-> "9", username |-> "dave", channel |-> "C2",
        text |-> "hello team", reactions |-> <<[emoji |-> "eyes", count |-> 1]>> ]

M5 == [ ts |-> "1736957700.000005", user |-> "U2", username |-> "bob", channel |-> "C2",
        text |-> "Good help", reactions |-> <<>> ]

MessagePool == {M1, M2, M3, M4, M5}

MessageSeqs == UNION {[1..n -> MessagePool] : n \in 0..MaxMessages}

\* the ts path parameters tried: every message's, and one no message has
RequestTs == {m.ts : m \in MessagePool} \cup {"1736954100.999999"}

\* the texts given to the text functions: up to MaxFragments fragments in a row
Fragments == {" ", "hello", "Great", "thanks", "bug", "issues", "401 error",
              "5551234567", "Account ", "ssh-rsa AAAA", "$1,000", "a@b.co", "on the way ",
              "constructor"}

RECURSIVE FragmentTexts(_)
FragmentTexts(n) ==
  IF n = 0 THEN {""}
  ELSE LET shorter == FragmentTexts(n - 1)
       IN  shorter \cup {t \o f : t \in shorter, f \in Fragments}

InputTexts == FragmentTexts(MaxFragments)

NoResult == [op |-> "none"]

Init ==
  /\ mockMessages \in MessageSeqs
  /\ text = ""
  /\ result = NoResult

(***************************************************************************)
(* index.js: the route handlers.  A handler runs to completion: nothing in *)
(* it awaits.                                                              *)
(***************************************************************************)
Json(op, status, body) == [op |-> op, status |-> status, body |-> body]

HandleHealth ==
  /\ result' = Json("health", 200,
                    [ message |-> "Slack Anonymizer API is running", version |-> "1.0.0",
                      endpoints |-> <<"/api/v1/messages", "/api/v1/messages/anonymized",
                                      "/api/v1/messages/{ts}/anonymized", "/api/v1/sentiment",
                                      "/api/v1/stats", "/docs">> ])
  /\ UNCHANGED <<mockMessages, text>>

HandleMessages ==
  /\ result' = Json("messages", 200,
                    [success |-> TRUE, data |-> mockMessages, count |-> Len(mockMessages)])
  /\ UNCHANGED <<mockMessages, text>>

HandleAnonymizedMessages ==
  /\ LET anonymizedMessages == anonymizeMessages(mockMessages)
     IN  result' = Json("anonymized", 200,
                        [ success |-> TRUE, data |-> anonymizedMessages,
                          count |-> Len(anonymizedMessages) ])
  /\ UNCHANGED <<mockMessages, text>>

\* mockMessages.find((msg) => msg.ts === ts): the first such message
FindByTs(messages, ts) ==
  LET hits == {i \in 1..Len(messages) : messages[i].ts = ts}
  IN  IF hits = {} THEN 0 ELSE CHOOSE i \in hits : \A j \in hits : i <= j

HandleMessageById(ts) ==
  /\ LET found == FindByTs(mockMessages, ts)
     IN  result' = IF found = 0
                   THEN [ op |-> "anonymizedById", ts |-> ts, status |-> 404,
                          body |-> [success |-> FALSE, error |-> "Message not found"] ]
                   ELSE [ op |-> "anonymizedById", ts |-> ts, status |-> 200,
                          body |-> [success |-> TRUE, data |-> anonymizeMessage(mockMessages[found])] ]
  /\ UNCHANGED <<mockMessages, text>>

\* a variant that sorts the stored sequence itself, newest first
HandleSentimentSortsStore ==
  /\ result' = Json("sentiment", 200, [success |-> TRUE, data |-> getSentimentStats(mockMessages)])
  /\ mockMessages' = StableSortDesc(mockMessages, NewerFirst(mockMessages))
  /\ UNCHANGED text

HandleSentiment ==
  /\ result' = Json("sentiment", 200, [success |-> TRUE, data |-> getSentimentStats(mockMessages)])
  /\ UNCHANGED <<mockMessages, text>>

HandleStats ==
  /\ result' = Json("stats", 200, [success |-> TRUE, data |-> analyzeMessages(mockMessages)])
  /\ UNCHANGED <<mockMessages, text>>

(***************************************************************************)
(* Direct calls of the exported functions index.js does not route.         *)
(***************************************************************************)
Returned(op, value) == [op |-> op, value |-> value]

CallCalculateStatistics ==
  /\ result' = Returned("calculateStatistics", calculateStatistics(mockMessages))
  /\ UNCHANGED <<mockMessages, text>>

CallGetSentimentSummary ==
  /\ result' = Returned("getSentimentSummary", getSentimentSummary(mockMessages))
  /\ UNCHANGED <<mockMessages, text>>

CallCreateUserMapping ==
  /\ result' = Returned("createUserMapping", createUserMapping(mockMessages))
  /\ UNCHANGED <<mockMessages, text>>

Next ==
  \/ HandleHealth
  \/ HandleMessages
  \/ HandleAnonymizedMessages
  \/ \E ts \in RequestTs : HandleMessageById(ts)
  \/ HandleSentiment
  \/ HandleStats
  \/ CallCalculateStatistics
  \/ CallGetSentimentSummary
  \/ CallCreateUserMapping

Spec == Init /\ [][Next]_vars

(***************************************************************************)
(* The text functions on their own: one call on an input of InputTexts,    *)
(* and the redactor once more on what it returned.                         *)
(***************************************************************************)
TextInit ==
  /\ mockMessages = <<>>
  /\ text \in InputTexts
  /\ result = NoResult

Applied(op, arg, value) == [op |-> op, arg |-> arg, value |-> value]

Redact ==
  /\ result = NoResult
  /\ result' = Applied("anonymizeText", text, anonymizeText(text))
  /\ UNCHANGED <<mockMessages, text>>

\* the redactor applied to its own output
RedactAgain ==
  /\ result.op = "anonymizeText"
  /\ result' = Applied("anonymizeTextAgain", result.value, anonymizeText(result.value))
  /\ UNCHANGED <<mockMessages, text>>

Sentiment ==
  /\ result = NoResult
  /\ result' = Applied("getSentiment", text, getSentiment(text))
  /\ UNCHANGED <<mockMessages, text>>

SentimentWithConfidence ==
  /\ result = NoResult
  /\ result' = Applied("getSentimentWithConfidence", text, getSentimentWithConfidence(text))
  /\ UNCHANGED <<mockMessages, text>>

\* the identifiers tried as the user of a lone record
RecordUsers == {"U0A1B2C3D", "user_74538ce1"}

\* anonymizeMessage on a record that carries the text and has no reactions field
Anonymize(user) ==
  /\ result = NoResult
  /\ LET message == [ ts |-> "1736954100.000001", user |-> user, username |-> "alice",
                      channel |-> "C1", text |-> text ]
     IN  result' = Applied("anonymizeMessage", message, anonymizeMessage(message))
  /\ UNCHANGED <<mockMessages, text>>

Keywords(limit) ==
  /\ result = NoResult
  /\ result' = [op |-> "extractKeywords", arg |-> text, limit |-> limit,
                value |-> extractKeywords(text, limit)]
  /\ UNCHANGED <<mockMessages, text>>

TextNext ==
  \/ Redact
  \/ RedactAgain
  \/ Sentiment
  \/ SentimentWithConfidence
  \/ \E user \in RecordUsers : Anonymize(user)
  \/ \E limit \in 0..MaxLimit : Keywords(limit)

TextSpec == TextInit /\ [][TextNext]_vars

(***************************************************************************)
(* Properties.                                                             *)
(***************************************************************************)
\* what a request or call answered with, whichever form the answer has
Answer(r) ==
  IF r.op \in {"anonymized", "sentiment", "stats"} THEN r.body.data ELSE r.value

\* C1: no operation keeps or changes state between calls.  Whatever calls
\* and requests came before, in whatever order, the stored message sequence
\* is never modified by a step, and the answer of anonymizeAll, basicStats,
\* fullAnalysis, sentimentReport and anonymize (by ts) is exactly what the
\* function gives on the stored sequence alone.
C1_CallsIndependent ==
  /\ [][mockMessages' = mockMessages]_vars
  /\ [](/\ result.op = "anonymized" => Answer(result) = anonymizeMessages(mockMessages)
        /\ result.op = "calculateStatistics" => Answer(result) = calculateStatistics(mockMessages)
        /\ result.op = "stats" => Answer(result) = analyzeMessages(mockMessages)
        /\ result.op = "sentiment" => Answer(result) = getSentimentStats(mockMessages)
        /\ (result.op = "anonymizedById" /\ result.status = 200) =>
             result.body.data = anonymizeMessage(mockMessages[FindByTs(mockMessages, result.ts)]))

\* a sentiment report answered on a store of two messages held oldest first
C1_Witness ==
  /\ result.op = "sentiment"
  /\ Len(mockMessages) = 2
  /\ FloatGt(parseFloat(mockMessages[2].ts), parseFloat(mockMessages[1].ts))

RECURSIVE SumMessageCount(_, _)
SumMessageCount(stats, n) ==
  IF n = 0 THEN 0 ELSE SumMessageCount(stats, n - 1) + stats[n].v.messageCount

RECURSIVE SumLabel(_, _, _)
SumLabel(timeline, n, label) ==
  IF n = 0 THEN 0 ELSE SumLabel(timeline, n - 1, label) + timeline[n][label]

\* C3: in the result of getSentimentStats, for any message sequence, the
\* overall tally adds up to the number of messages, and for each label the
\* counts of all timeline hours add up to the overall count of that label.
C3_SentimentSums ==
  result.op = "sentiment" =>
    LET d == result.body.data
    IN  /\ d.overall.positive + d.overall.negative + d.overall.neutral = Len(mockMessages)
        /\ \A label \in {"positive", "negative", "neutral"} :
             SumLabel(d.timeline, Len(d.timeline), label) = d.overall[label]

\* two messages of the same hour, with different labels
C3_Witness ==
  /\ result.op = "sentiment"
  /\ Len(mockMessages) = 2
  /\ Len(result.body.data.timeline) = 1
  /\ result.body.data.overall.positive = 1
  /\ result.body.data.overall.neutral = 1

\* C4: anonymizeText is idempotent on its own output: a second pass over
\* an already redacted text changes nothing, for every input text.
C4_RedactIdempotent ==
  result.op = "anonymizeTextAgain" => result.value = result.arg

\* some rule of the cascade matches somewhere in the text
AnyRuleMatches(t) ==
  \E k \in 1..Len(RedactionRules) : Matches(RedactionRules[k].re, t)

\* C5 as stated: the output of anonymizeMessage never has the original user
\* identifier as its user nor the original text as its text, for every text.
C5_NeverVerbatim ==
  result.op = "anonymizeMessage" =>
    /\ result.value.user # result.arg.user
    /\ result.value.text # result.arg.text

\* C5: the output of anonymizeMessage never has the original user identifier
\* as its user; its text differs from the original text exactly when some
\* redaction rule matches in the original text, and a text in which no rule
\* matches is passed on verbatim.
C5_VerbatimOnlyWhenNoRuleMatches ==
  result.op = "anonymizeMessage" =>
    /\ result.value.user # result.arg.user
    /\ (result.value.text = result.arg.text) <=> ~AnyRuleMatches(result.arg.text)

\* a text in which no rule matches, passed on as it came
C5_Witness ==
  /\ result.op = "anonymizeMessage"
  /\ result.arg.text = "hello "
  /\ ~AnyRuleMatches(result.arg.text)
  /\ result.value.text = result.arg.text
  /\ result.value.user # result.arg.user

\* C6: anonymizeMessage answers with a new record: ts and channel as in the
\* message, reactions as in the message or empty when it has none, username
\* "[USERNAME]", anonymized true, user the hashed identifier and text the
\* redacted text; the message it was given stays as it was.
C6_AnonymizeFrame ==
  [][(result'.op = "anonymizedById" /\ result'.status = 200) =>
       LET found == FindByTs(mockMessages, result'.ts)
           m     == mockMessages[found]
           a     == result'.body.data
       IN  /\ DOMAIN a = {"ts", "user", "username", "channel", "text", "reactions", "anonymized"}
           /\ a.ts = m.ts
           /\ a.channel = m.channel
           /\ a.reactions = IF "reactions" \in DOMAIN m THEN m.reactions ELSE <<>>
           /\ a.username = "[USERNAME]"
           /\ a.anonymized = TRUE
           /\ a.user = hashUserId(m.user)
           /\ a.text = anonymizeText(m.text)
           /\ mockMessages'[found] = m]_vars

\* a message without a reactions field and with sensitive text, anonymized by its ts
C6_Witness ==
  /\ result.op = "anonymizedById"
  /\ result.status = 200
  /\ "reactions" \notin DOMAIN mockMessages[FindByTs(mockMessages, result.ts)]
  /\ result.body.data.reactions = <<>>
  /\ result.body.data.text # mockMessages[FindByTs(mockMessages, result.ts)].text

\* C7: anonymizeMessages answers with a sequence as long as its input whose
\* i-th element is anonymizeMessage of the i-th message, for every i.
C7_OrderPreserved ==
  result.op = "anonymized" =>
    /\ Len(result.body.data) = Len(mockMessages)
    /\ result.body.count = Len(mockMessages)
    /\ \A i \in 1..Len(mockMessages) : result.body.data[i] = anonymizeMessage(mockMessages[i])

\* two different messages, anonymized in their order
C7_Witness ==
  /\ result.op = "anonymized"
  /\ Len(mockMessages) = 2
  /\ mockMessages[1] # mockMessages[2]
  /\ result.body.data[1].ts = mockMessages[1].ts

C9_EmptyHasAllFields ==
  mockMessages = <<>> =>
    /\ result.op = "calculateStatistics" =>
         /\ result.value.totalMessages = 0 /\ result.value.topWords = <<>>
         /\ DOMAIN result.value = DOMAIN calculateStatistics(<<M1>>)
    /\ result.op = "sentiment" =>
         /\ result.body.data.overall = ZeroTally /\ result.body.data.details = <<>>
         /\ DOMAIN result.body.data = DOMAIN getSentimentStats(<<M1>>)
    /\ result.op = "stats" =>
         /\ result.body.data.totalMessages = 0 /\ result.body.data.keywords = <<>>
         /\ DOMAIN result.body.data = DOMAIN analyzeMessages(<<M1>>)

\* the lexicon phrases the lower-cased text contains
Contained(words, t) ==
  {words[k] : k \in {j \in 1..Len(words) : Includes(toLowerCase(t), words[j])}}

\* C10: the sentiment score of a text is the number of positive phrases its
\* lower-cased form contains minus the number of negative phrases it
\* contains, each phrase counted once; the label is positive above 0,
\* negative below 0 and neutral at 0, in both sentiment functions.
C10_ScoreAndLabel ==
  LET score == Cardinality(Contained(positiveWords, result.arg))
                 - Cardinality(Contained(negativeWords, result.arg))
      label == IF score > 0 THEN "positive" ELSE IF score < 0 THEN "negative" ELSE "neutral"
  IN  /\ result.op = "getSentimentWithConfidence" =>
           result.value.score = score /\ result.value.sentiment = label
      /\ result.op = "getSentiment" => result.value = label

\* a text with two positive phrases and no negative one, scored 2
C10_Witness ==
  /\ result.op = "getSentimentWithConfidence"
  /\ result.arg = "Greatthanks"
  /\ result.value.score = 2
  /\ result.value.sentiment = "positive"

\* C11: the confidence of getSentimentWithConfidence lies in [0, 1]; it is
\* 0.3, with label neutral and score 0, when no lexicon phrase is contained;
\* otherwise it is min(0.95, 0.5 + 0.3 * matchedWords / tokenCount
\* + 0.2 * |score| / matchedWords) rounded to two decimals, hence at least
\* 0.5 and at most 0.95, for every text.
C11_ConfidenceFormula ==
  result.op = "getSentimentWithConfidence" =>
    LET pos     == Cardinality(Contained(positiveWords, result.arg))
        neg     == Cardinality(Contained(negativeWords, result.arg))
        matched == pos + neg
        tokens  == SplitWhitespaceCount(result.arg)
        exact   == RoundDiv(50 * tokens * matched + 30 * matched * matched
                              + 20 * Abs(pos - neg) * tokens, tokens * matched)
        c       == result.value.confidence
    IN  /\ c.num >= 0 /\ c.num <= c.den
        /\ matched = 0 =>
             /\ c = Ratio(30, 100)
             /\ result.value.sentiment = "neutral"
             /\ result.value.score = 0
        /\ matched > 0 =>
             /\ c = Ratio(IF exact > 95 THEN 95 ELSE exact, 100)
             /\ 2 * c.num >= c.den
             /\ 100 * c.num <= 95 * c.den

\* the tokens of a text: the maximal runs of word characters of its lower-cased form
Tokens(t) == MatchAllFrom(WordRe, toLowerCase(t), 1)

\* how many of the tokens are the word
Occurrences(tokens, word) == Cardinality({i \in 1..Len(tokens) : tokens[i] = word})

\* C12: for any text and limit, no entry extractKeywords returns is a stop
\* word or a token shorter than 3 characters, and the count of every entry
\* is the number of occurrences of that lower-cased token in the text.
C12_KeywordsFilteredAndCounted ==
  result.op = "extractKeywords" =>
    \A i \in 1..Len(result.value) :
      /\ result.value[i].word \notin stopWords
      /\ Len(result.value[i].word) >= 3
      /\ result.value[i].count = JsNumber(Occurrences(Tokens(result.arg), result.value[i].word))

\* the position of the first occurrence of the word among the tokens
FirstOccurrence(tokens, word) ==
  CHOOSE i \in 1..Len(tokens) : tokens[i] = word /\ \A j \in 1..(i - 1) : tokens[j] # word

\* C13: extractKeywords returns at most limit entries, in descending order
\* of the number of occurrences, and of two tokens that occur equally often
\* the one that occurs first in the text comes first, whatever characters
\* the tokens are made of.
C13_KeywordOrder ==
  result.op = "extractKeywords" =>
    LET tokens == Tokens(result.arg)
        words  == [i \in 1..Len(result.value) |-> result.value[i].word]
    IN  /\ Len(words) <= result.limit
        /\ \A i, j \in 1..Len(words) :
             i < j =>
               \/ Occurrences(tokens, words[i]) > Occurrences(tokens, words[j])
               \/ /\ Occurrences(tokens, words[i]) = Occurrences(tokens, words[j])
                  /\ FirstOccurrence(tokens, words[i]) < FirstOccurrence(tokens, words[j])

\* C14: anonymizeText replaces every "Account" followed by a space and 10
\* or more digits by [ACCOUNT_NUMBER]; no earlier rule takes the digits
\* first and leaves "Account [PHONE]" or "Account [CREDIT_CARD]".
C14_AccountNumbersRedacted ==
  (result.op = "anonymizeText" /\ Matches(AccountRe, result.arg)) =>
    /\ Includes(result.value, "[ACCOUNT_NUMBER]")
    /\ ~Includes(result.value, "Account [PHONE]")
    /\ ~Includes(result.value, "Account [CREDIT_CARD]")

\* how many of the messages have the value v in the field f
CountOf(messages, f, v) == Cardinality({i \in 1..Len(messages) : messages[i][f] = v})

\* the value of the field f that most messages have; of several such values
\* the one whose first message comes first
FirstMostFrequent(messages, f) ==
  LET first == CHOOSE i \in 1..Len(messages) :
                 /\ \A j \in 1..Len(messages) :
                      CountOf(messages, f, messages[j][f]) <= CountOf(messages, f, messages[i][f])
                 /\ \A j \in 1..(i - 1) :
                      CountOf(messages, f, messages[j][f]) < CountOf(messages, f, messages[i][f])
  IN  messages[first][f]

\* C15: in analyzeMessages on a non-empty sequence mostActiveUser.count is
\* the largest messageCount of a user and mostActiveUser.user is, of the
\* users with that many messages, the one whose first message comes first in
\* the sequence, whatever the identifiers look like; likewise
\* mostActiveChannel for the channels.
C15_MostActiveFirstWins ==
  (result.op = "stats" /\ Len(mockMessages) > 0) =>
    LET d == result.body.data
    IN  /\ d.mostActiveUser.user = FirstMostFrequent(mockMessages, "user")
        /\ d.mostActiveUser.count = CountOf(mockMessages, "user", d.mostActiveUser.user)
        /\ d.mostActiveChannel.channel = FirstMostFrequent(mockMessages, "channel")
        /\ d.mostActiveChannel.count = CountOf(mockMessages, "channel", d.mostActiveChannel.channel)

\* C16: getSentiment and getSentimentWithConfidence give every text the
\* same label, so for any message sequence the sentimentOverview of
\* analyzeMessages (and the summary of getSentimentSummary) is the overall
\* tally of getSentimentStats, label by label.
C16_SameLabels ==
  LET overall == getSentimentStats(mockMessages).overall
      Same(tally) == \A label \in {"positive", "negative", "neutral"} :
                       tally[label] = overall[label]
  IN  /\ result.op = "stats" => Same(result.body.data.sentimentOverview)
      /\ result.op = "getSentimentSummary" => Same(result.value)

\* a full analysis of a positive and a negative message
C16_Witness ==
  /\ result.op = "stats"
  /\ result.body.data.sentimentOverview.positive = 1
  /\ result.body.data.sentimentOverview.negative = 1
  /\ getSentimentStats(mockMessages).overall.positive = 1

====
